---- MODULE Spec2Model ----
(***************************************************************************)
(* Model of file_loader.py: DICOM to NIfTI conversion, interactive         *)
(* selection of the converted series, copy into the BIDS layout and a row  *)
(* appended to participants.tsv.                                           *)
(*                                                                         *)
(* A Python str is a sequence of one-character strings, so that replace,   *)
(* split, strip, lower, endswith and int() are computed character by       *)
(* character as the interpreter computes them.  The file system is a       *)
(* function from file paths to file contents plus a set of directories.    *)
(***************************************************************************)
EXTENDS Integers, Sequences, FiniteSets, TLC

VARIABLES
    pc,                 \* position of main() in the current run
    run,                \* number of runs of the script started so far
    args,               \* argparse.Namespace of the current run
    files,              \* file system: path -> content
    dirs,               \* file system: directories
    user_input,         \* line returned by the last input() call, as typed
    nii_info_df,        \* 'File Name' column of the DataFrame, row 0 first
    ci,                 \* index of the contrast being prompted for (loop of main)
    images_to_use_dict, \* sequence of <<contrast, path>> in insertion order
    ki,                 \* index of the dict item being copied (loop of main)
    completed,          \* the runs that reached the end of main, oldest first
    steps               \* the steps main has taken in the current run, in order

vars == <<pc, run, args, files, dirs, user_input, nii_info_df, ci,
          images_to_use_dict, ki, completed, steps>>

\* Number of runs of the script against the BIDS folder.
MaxRuns == 2

----------------------------------------------------------------------------
(* Python str operations *)

Whitespace == {" ", "\t"}

Digits == {"0", "1", "2", "3", "4", "5", "6", "7", "8", "9"}

DigitVal(c) ==
    CASE c = "0" -> 0 [] c = "1" -> 1 [] c = "2" -> 2 [] c = "3" -> 3
      [] c = "4" -> 4 [] c = "5" -> 5 [] c = "6" -> 6 [] c = "7" -> 7
      [] c = "8" -> 8 [] c = "9" -> 9

\* s.startswith(p)
StartsWith(s, p) ==
    Len(s) >= Len(p) /\ SubSeq(s, 1, Len(p)) = p

\* s.endswith(p)
EndsWith(s, p) ==
    Len(s) >= Len(p) /\ SubSeq(s, Len(s) - Len(p) + 1, Len(s)) = p

\* s[i:] (0-based i, as Python)
Drop(s, i) == SubSeq(s, i + 1, Len(s))

\* s.replace(old, new): every non-overlapping occurrence, leftmost first
RECURSIVE Replace(_, _, _)
Replace(s, old, new) ==
    IF s = <<>> THEN <<>>
    ELSE IF StartsWith(s, old) THEN new \o Replace(Drop(s, Len(old)), old, new)
    ELSE <<Head(s)>> \o Replace(Tail(s), old, new)

\* s.strip()
RECURSIVE LStrip(_)
LStrip(s) ==
    IF s # <<>> /\ Head(s) \in Whitespace THEN LStrip(Tail(s)) ELSE s

RECURSIVE RStrip(_)
RStrip(s) ==
    IF s # <<>> /\ s[Len(s)] \in Whitespace
    THEN RStrip(SubSeq(s, 1, Len(s) - 1)) ELSE s

Strip(s) == RStrip(LStrip(s))

\* lower() left out
LowerChar_Identity(c) == c

\* s.lower()
LowerChar(c) ==
    CASE c = "Y" -> "y" [] c = "E" -> "e" [] c = "S" -> "s"
      [] c = "N" -> "n" [] c = "O" -> "o" [] OTHER -> c

Lower(s) == [i \in 1..Len(s) |-> LowerChar(s[i])]

\* positions of character c in s
Positions(s, c) == {i \in 1..Len(s) : s[i] = c}

Max(S) == CHOOSE x \in S : \A y \in S : y <= x

Min(S) == CHOOSE x \in S : \A y \in S : x <= y

\* s.split(c)[-1]
SplitLast(s, c) ==
    IF Positions(s, c) = {} THEN s ELSE Drop(s, Max(Positions(s, c)))

\* s.split(c)[0]
SplitFirst(s, c) ==
    IF Positions(s, c) = {} THEN s ELSE SubSeq(s, 1, Min(Positions(s, c)) - 1)

\* the digits of an int() literal after the sign: digits, single underscores
\* allowed between digits
IsDigitGroup(d) ==
    /\ d # <<>>
    /\ \A i \in 1..Len(d) : d[i] \in Digits \cup {"_"}
    /\ d[1] \in Digits /\ d[Len(d)] \in Digits
    /\ \A i \in 1..(Len(d) - 1) : ~(d[i] = "_" /\ d[i + 1] = "_")

Unsigned(s) ==
    IF s # <<>> /\ Head(s) \in {"+", "-"} THEN Tail(s) ELSE s

\* whether int(s) returns (otherwise it raises ValueError)
IsInt(s) == IsDigitGroup(Unsigned(Strip(s)))

RECURSIVE DigitsValue(_, _)
DigitsValue(d, acc) ==
    IF d = <<>> THEN acc
    ELSE IF Head(d) = "_" THEN DigitsValue(Tail(d), acc)
    ELSE DigitsValue(Tail(d), 10 * acc + DigitVal(Head(d)))

\* int(s), for IsInt(s)
IntOf(s) ==
    LET t == Strip(s)
        v == DigitsValue(Unsigned(t), 0)
    IN  IF Head(t) = "-" THEN 0 - v ELSE v

\* os.path.join(a, b) for a relative b
PathJoin(a, b) == a \o <<"/">> \o b

\* os.path.basename(os.path.normpath(p)) for a path without trailing slash
Basename(p) == SplitLast(p, "/")

----------------------------------------------------------------------------
(* Command line and environment *)

\* -bids-folder, -participant, -session
BidsFolder == <<"/","b","i","d","s">>

Participants == {<<"s","u","b","-","0","0","1">>}

Sessions == {<<"s","e","s","-","0","1">>}

\* -dicom-folder: the folders the operator may name
DicomFolderArgs ==
    {<<"/","s","r","c","/","d","i","r","_","a">>, <<"/","s","r","c","/","d","i","r","_","b">>, <<"/","s","r","c","/","d","i","r","_","c">>, <<"/","s","r","c","/","d","i","r","_","e">>, <<"/","s","r","c","/","d","i","r","_","x">>}

\* the ones that exist as directories
DicomDirs == DicomFolderArgs \ {<<"/","s","r","c","/","d","i","r","_","x">>}

\* -contrasts
ContrastArgs ==
    { <<<<"T","2","w">>, <<"d","w","i">>>>,
      <<<<"d","w","i">>>>,
      <<<<"T","2","w">>, <<"T","2","w">>>>,
      <<<<"a","c","q","-","a","x","_","d","w","i">>>> }

\* -age, -sex
AgeArgs == {<<"2","5">>}

SexArgs == {<<"n","/","a">>}

ArgSpace ==
    [dicom_folder : DicomFolderArgs, participant : Participants,
     session : Sessions, contrasts : ContrastArgs, age : AgeArgs,
     sex : SexArgs, debug : BOOLEAN]

\* What the operator may type at the row-number prompt.
RowInputs ==
    {<<>>, <<" ">>, <<"x">>, <<"1",".","0">>, <<"-","1">>, <<"0">>, <<"1">>, <<" ","1"," ">>, <<"+","1">>, <<"2">>, <<"3">>, <<"4">>,
     <<"1","_","0">>}

\* What the operator may type at the overwrite prompt.
OverwriteInputs ==
    {<<"y">>, <<"Y">>, <<"y","e","s">>, <<"Y","E","S">>, <<"n">>, <<"N">>, <<"n","o">>, <<"N","o">>, <<>>, <<" ","y">>}

\* A converted series: the "%d_%s" name and which gradient tables dcm2niix
\* wrote beside the image and its JSON sidecar.
Series(name, bval, bvec) == [name |-> name, bval |-> bval, bvec |-> bvec]

\* The series dcm2niix converts from each DICOM folder.
Dcm2niixSeries(dicom_folder) ==
    CASE dicom_folder = <<"/","s","r","c","/","d","i","r","_","a">> ->
            { Series(<<"t","2","_","3">>, FALSE, FALSE), Series(<<"d","w","i","_","5">>, TRUE, TRUE) }
      [] dicom_folder = <<"/","s","r","c","/","d","i","r","_","b">> ->
            { Series(<<"t","2","_","3">>, FALSE, FALSE), Series(<<"d","w","i","_","5">>, TRUE, TRUE),
              Series(<<"d","w","i",".","g","z","_","5">>, FALSE, FALSE), Series(<<"e","p","2","d","_","6">>, TRUE, FALSE) }
      [] dicom_folder = <<"/","s","r","c","/","d","i","r","_","c">> ->
            { Series(<<"t","2","_","3">>, FALSE, FALSE), Series(<<"g","r","e","_","7","_","e","2">>, FALSE, FALSE) }
      [] OTHER -> {}

\* The file names dcm2niix writes for one series.
SeriesFiles(s) ==
    {s.name \o <<".","n","i","i",".","g","z">>, s.name \o <<".","j","s","o","n">>}
        \cup (IF s.bval THEN {s.name \o <<".","b","v","a","l">>} ELSE {})
        \cup (IF s.bvec THEN {s.name \o <<".","b","v","e","c">>} ELSE {})

----------------------------------------------------------------------------
(* File system *)

\* p is d or lies under d
Under(p, d) == p = d \/ StartsWith(p, d \o <<"/">>)

\* os.path.isdir, os.path.isfile
IsDir(ds, p) == p \in ds

IsFile(fs, p) == p \in DOMAIN fs

\* os.makedirs(p, exist_ok=True): p and every missing ancestor
Makedirs(ds, p) ==
    ds \cup {SubSeq(p, 1, i) : i \in {j \in 1..Len(p) : j = Len(p) \/ p[j + 1] = "/"}}

\* shutil.rmtree(p)
RmtreeFiles(fs, p) == [q \in {r \in DOMAIN fs : ~Under(r, p)} |-> fs[q]]

RmtreeDirs(ds, p) == {d \in ds : ~Under(d, p)}

\* os.listdir(p), files only
Listdir(fs, p) ==
    {Drop(q, Len(p) + 1) : q \in {r \in DOMAIN fs :
        StartsWith(r, p \o <<"/">>) /\ Positions(Drop(r, Len(p) + 1), "/") = {}}}

\* the file system after writing content c to path p
WriteFile(fs, p, c) == [q \in DOMAIN fs \cup {p} |-> IF q = p THEN c ELSE fs[q]]

\* output_folder and temp_folder of main
OutputFolder(a) == PathJoin(PathJoin(BidsFolder, a.participant), a.session)

TempFolder(a) == PathJoin(OutputFolder(a), <<"t","e","m","p","_","d","c","m","2","n","i","i","x">>)

ParticipantsFile == PathJoin(BidsFolder, <<"p","a","r","t","i","c","i","p","a","n","t","s",".","t","s","v">>)

NoArgs == [dicom_folder |-> <<>>, participant |-> <<>>, session |-> <<>>,
           contrasts |-> <<>>, age |-> <<>>, sex |-> <<>>, debug |-> FALSE]

Ended == {"idle", "finished", "skipped", "exit1", "crashed"}

----------------------------------------------------------------------------
(* State after construction: an empty BIDS folder, no run started *)

Init ==
    /\ pc = "idle"
    /\ run = 0
    /\ args = NoArgs
    /\ files = <<>>
    /\ dirs = {BidsFolder} \cup DicomDirs
    /\ user_input = <<>>
    /\ nii_info_df = <<>>
    /\ ci = 1
    /\ images_to_use_dict = <<>>
    /\ ki = 1
    /\ completed = <<>>
    /\ steps = <<>>

\* The operator starts the script: get_parser().
StartRun ==
    /\ pc \in Ended
    /\ run < MaxRuns
    /\ \E a \in ArgSpace : args' = a
    /\ run' = run + 1
    /\ pc' = "check_dicom"
    /\ user_input' = <<>>
    /\ nii_info_df' = <<>>
    /\ ci' = 1
    /\ images_to_use_dict' = <<>>
    /\ ki' = 1
    /\ steps' = <<>>
    /\ UNCHANGED <<files, dirs, completed>>

\* main: the DICOM folder does not exist, exit(1).
DicomFolderMissing ==
    /\ pc = "check_dicom"
    /\ ~IsDir(dirs, args.dicom_folder)
    /\ pc' = "exit1"
    /\ UNCHANGED <<run, args, files, dirs, user_input, nii_info_df, ci,
                   images_to_use_dict, ki, completed, steps>>

\* main: the participant/session folder exists, ask whether to overwrite it.
OutputFolderExists ==
    /\ pc = "check_dicom"
    /\ IsDir(dirs, args.dicom_folder)
    /\ IsDir(dirs, OutputFolder(args))
    /\ pc' = "overwrite_prompt"
    /\ UNCHANGED <<run, args, files, dirs, user_input, nii_info_df, ci,
                   images_to_use_dict, ki, completed, steps>>

\* main: the participant/session folder does not exist, create it.
OutputFolderCreate ==
    /\ pc = "check_dicom"
    /\ IsDir(dirs, args.dicom_folder)
    /\ ~IsDir(dirs, OutputFolder(args))
    /\ dirs' = Makedirs(dirs, OutputFolder(args))
    /\ pc' = "convert"
    /\ UNCHANGED <<run, args, files, user_input, nii_info_df, ci,
                   images_to_use_dict, ki, completed, steps>>

\* the answers of the overwrite prompt
IsYes(answer) == answer \in {<<"y">>, <<"y","e","s">>}

IsNo(answer) == answer \in {<<"n">>, <<"n","o">>}

\* main: one pass of the overwrite loop.
OverwritePrompt ==
    /\ pc = "overwrite_prompt"
    /\ \E typed \in OverwriteInputs :
        /\ user_input' = typed
        /\ IF IsYes(Lower(typed))
           THEN /\ files' = RmtreeFiles(files, OutputFolder(args))
                /\ dirs' = RmtreeDirs(dirs, OutputFolder(args))
                /\ pc' = "convert"
           ELSE IF IsNo(Lower(typed))
           THEN /\ pc' = "skipped"
                /\ UNCHANGED <<files, dirs>>
           ELSE /\ pc' = "overwrite_prompt"
                /\ UNCHANGED <<files, dirs>>
    /\ UNCHANGED <<run, args, nii_info_df, ci, images_to_use_dict, ki, completed, steps>>

\* the files run_dcm2niix leaves in temp_folder: path -> content, the content
\* naming the run and the converted file
Dcm2niixFiles(a, r) ==
    LET names == UNION {SeriesFiles(s) : s \in Dcm2niixSeries(a.dicom_folder)}
    IN  [p \in {PathJoin(TempFolder(a), n) : n \in names} |->
            <<r, Drop(p, Len(TempFolder(a)) + 1)>>]

\* main: create temp_folder and run dcm2niix into it.
RunDcm2niix ==
    /\ pc = "convert"
    /\ dirs' = Makedirs(dirs, TempFolder(args))
    /\ files' = LET new == Dcm2niixFiles(args, run)
                IN  [p \in DOMAIN files \cup DOMAIN new |->
                        IF p \in DOMAIN new THEN new[p] ELSE files[p]]
    /\ pc' = "list"
    /\ user_input' = <<>>
    /\ steps' = Append(steps, "convert")
    /\ UNCHANGED <<run, args, nii_info_df, ci, images_to_use_dict, ki, completed>>

----------------------------------------------------------------------------
(* get_nii_info_dataframe *)

\* the files of temp_folder that the listing keeps
NiiFiles(fs, temp_folder) ==
    {f \in Listdir(fs, temp_folder) : EndsWith(f, <<".","n","i","i",".","g","z">>)}

\* the text the sort key hands to int(): x.split('_')[-1].split('.')[0]
SeriesField(x) == SplitFirst(SplitLast(x, "_"), ".")

\* the sort key of a file name
SortKey(x) == IntOf(SeriesField(x))

\* the sort left out: the names stay in listing order
InsertByKey_Unsorted(sorted, x) == Append(sorted, x)

\* list.sort(key=...) is stable: insert x behind every element whose key is
\* not greater
RECURSIVE InsertByKey(_, _)
InsertByKey(sorted, x) ==
    IF sorted = <<>> THEN <<x>>
    ELSE IF SortKey(Head(sorted)) <= SortKey(x)
         THEN <<Head(sorted)>> \o InsertByKey(Tail(sorted), x)
         ELSE <<x>> \o sorted

RECURSIVE SortByKey(_)
SortByKey(list) ==
    IF list = <<>> THEN <<>>
    ELSE InsertByKey(SortByKey(SubSeq(list, 1, Len(list) - 1)), list[Len(list)])

\* the orders in which os.listdir may return the names of S
ListdirOrders(S) ==
    {o \in [1..Cardinality(S) -> S] : \A i, j \in DOMAIN o : i # j => o[i] # o[j]}

\* main: list the converted files and build the table.
GetNiiInfoDataframe ==
    /\ pc = "list"
    /\ LET nii_files == NiiFiles(files, TempFolder(args))
       IN  IF nii_files = {}
           THEN /\ pc' = "exit1"
                /\ UNCHANGED nii_info_df
           ELSE IF \E f \in nii_files : ~IsInt(SeriesField(f))
           THEN /\ pc' = "crashed"
                /\ UNCHANGED nii_info_df
           ELSE /\ \E o \in ListdirOrders(nii_files) : nii_info_df' = SortByKey(o)
                /\ pc' = "select"
    /\ steps' = Append(steps, "list")
    /\ UNCHANGED <<run, args, files, dirs, user_input, ci, images_to_use_dict,
                   ki, completed>>

----------------------------------------------------------------------------
(* select_image and validate_dwi_image *)

\* the contrast that gets the diffusion treatment
IsDwi(contrast) == contrast = <<"d","w","i">>

\* validate_dwi_image: the path without its extension
DwiBase(fname) == Replace(Replace(fname, <<".","n","i","i">>, <<>>), <<".","g","z">>, <<>>)

ValidatedBval(fname) == DwiBase(fname) \o <<".","b","v","a","l">>

ValidatedBvec(fname) == DwiBase(fname) \o <<".","b","v","e","c">>

ValidateDwiImage(fs, fname) ==
    ~(~IsFile(fs, ValidatedBval(fname)) \/ ~IsFile(fs, ValidatedBvec(fname)))

\* the range check with its lower bound forgotten
RowOutOfRange_NoLowerBound(row_number, n) == row_number >= n

\* the range check on the row number
RowOutOfRange(row_number, n) == row_number < 0 \/ row_number >= n

\* nii_info_df.iloc[row_number]['File Name']: iloc counts a negative position
\* from the end
RowFileName(df, row_number) ==
    IF row_number < 0 THEN df[Len(df) + row_number + 1] ELSE df[row_number + 1]

\* images_to_use_dict[contrast] = path
DictSet(d, contrast, path) ==
    IF \E i \in DOMAIN d : d[i][1] = contrast
    THEN [i \in DOMAIN d |-> IF d[i][1] = contrast THEN <<contrast, path>> ELSE d[i]]
    ELSE Append(d, <<contrast, path>>)

\* whether select_image returns for this input, and what
Accepts(typed, contrast, df, fs, temp_folder) ==
    /\ Strip(typed) # <<>>
    /\ IsInt(typed)
    /\ ~RowOutOfRange(IntOf(typed), Len(df))
    /\ IsDwi(contrast) =>
          ValidateDwiImage(fs, PathJoin(temp_folder, RowFileName(df, IntOf(typed))))

Selected(typed, df, temp_folder) ==
    PathJoin(temp_folder, RowFileName(df, IntOf(typed)))

\* the copy loop entered after the first selection
AfterSelection_First(i, contrasts) == "copy"

\* where main goes once the contrast at index i has its image
AfterSelection(i, contrasts) == IF i = Len(contrasts) THEN "copy" ELSE "select"

\* main and select_image: one prompt for the contrast at index ci.
SelectImage ==
    /\ pc = "select"
    /\ \E typed \in RowInputs :
        /\ user_input' = typed
        /\ IF Accepts(typed, args.contrasts[ci], nii_info_df, files, TempFolder(args))
           THEN /\ images_to_use_dict' =
                      DictSet(images_to_use_dict, args.contrasts[ci],
                              Selected(typed, nii_info_df, TempFolder(args)))
                /\ pc' = AfterSelection(ci, args.contrasts)
                /\ ci' = ci + 1
                /\ steps' = Append(steps, "select")
           ELSE UNCHANGED <<images_to_use_dict, pc, ci, steps>>
    /\ UNCHANGED <<run, args, files, dirs, nii_info_df, ki, completed>>

----------------------------------------------------------------------------
(* copy_files_to_bids_folder *)

ContrastFolder(contrast) == IF IsDwi(contrast) THEN <<"d","w","i">> ELSE <<"a","n","a","t">>

\* fname_output
FnameOutput(contrast, output_folder, participant_id, session_id) ==
    PathJoin(PathJoin(output_folder, ContrastFolder(contrast)),
             participant_id \o <<"_">> \o session_id \o <<"_">> \o contrast \o <<".","n","i","i",".","g","z">>)

\* the sidecar path the copy derives from an image path
WithExt(path, ext) == Replace(path, <<".","n","i","i",".","g","z">>, ext)

\* the copy with the .bvec call forgotten
CopyCalls_NoBvec(contrast, fname, output_folder, participant_id, session_id) ==
    LET out == FnameOutput(contrast, output_folder, participant_id, session_id)
    IN  << <<fname, out>>,
           <<WithExt(fname, <<".","j","s","o","n">>), WithExt(out, <<".","j","s","o","n">>)>> >>
        \o (IF IsDwi(contrast)
            THEN << <<WithExt(fname, <<".","b","v","a","l">>), WithExt(out, <<".","b","v","a","l">>)>> >>
            ELSE <<>>)

\* the shutil.copy calls in order, as <<source, destination>>
CopyCalls(contrast, fname, output_folder, participant_id, session_id) ==
    LET out == FnameOutput(contrast, output_folder, participant_id, session_id)
    IN  << <<fname, out>>,
           <<WithExt(fname, <<".","j","s","o","n">>), WithExt(out, <<".","j","s","o","n">>)>> >>
        \o (IF IsDwi(contrast)
            THEN << <<WithExt(fname, <<".","b","v","a","l">>), WithExt(out, <<".","b","v","a","l">>)>>,
                    <<WithExt(fname, <<".","b","v","e","c">>), WithExt(out, <<".","b","v","e","c">>)>> >>
            ELSE <<>>)

\* the calls that run: shutil.copy raises at the first missing source
RECURSIVE CopyPrefix(_, _)
CopyPrefix(fs, calls) ==
    IF calls = <<>> \/ ~IsFile(fs, Head(calls)[1]) THEN <<>>
    ELSE <<Head(calls)>> \o CopyPrefix(WriteFile(fs, Head(calls)[2], fs[Head(calls)[1]]),
                                       Tail(calls))

RECURSIVE CopyAll(_, _)
CopyAll(fs, calls) ==
    IF calls = <<>> THEN fs
    ELSE CopyAll(WriteFile(fs, Head(calls)[2], fs[Head(calls)[1]]), Tail(calls))

\* where main goes once the item at index k is copied
AfterCopy(k, d) == IF k = Len(d) THEN "cleanup" ELSE "copy"

\* main: copy the files of the dict item at index ki.
CopyFilesToBidsFolder ==
    /\ pc = "copy"
    /\ LET contrast == images_to_use_dict[ki][1]
           fname == images_to_use_dict[ki][2]
           calls == CopyCalls(contrast, fname, OutputFolder(args),
                              args.participant, args.session)
           done == CopyPrefix(files, calls)
       IN  /\ dirs' = Makedirs(dirs, PathJoin(OutputFolder(args), ContrastFolder(contrast)))
           /\ files' = CopyAll(files, done)
           /\ IF Len(done) = Len(calls)
              THEN pc' = AfterCopy(ki, images_to_use_dict) /\ ki' = ki + 1
              ELSE pc' = "crashed" /\ UNCHANGED ki
    /\ steps' = Append(steps, "copy")
    /\ UNCHANGED <<run, args, user_input, nii_info_df, ci, images_to_use_dict,
                   completed>>

----------------------------------------------------------------------------
(* end of main *)

\* the -debug test inverted
RemovesTemp_Inverted(a) == a.debug

\* whether temp_folder is removed
RemovesTemp(a) == ~a.debug

\* main: remove the temporary folder unless -debug.
Cleanup ==
    /\ pc = "cleanup"
    /\ IF RemovesTemp(args)
       THEN /\ files' = RmtreeFiles(files, TempFolder(args))
            /\ dirs' = RmtreeDirs(dirs, TempFolder(args))
       ELSE UNCHANGED <<files, dirs>>
    /\ pc' = "write_tsv"
    /\ UNCHANGED <<run, args, user_input, nii_info_df, ci, images_to_use_dict,
                   ki, completed, steps>>

TsvHeader == <<<<"p","a","r","t","i","c","i","p","a","n","t","_","i","d">>, <<"s","e","s","_","i","d">>, <<"s","o","u","r","c","e","_","i","d">>, <<"a","g","e">>, <<"s","e","x">>>>

TsvRow(a) == <<a.participant, a.session, Basename(a.dicom_folder), a.age, a.sex>>

\* the header written by every run
RowsWritten_AlwaysHeader(file_exists, a) == <<TsvHeader, TsvRow(a)>>

\* the rows write_participants_tsv appends
RowsWritten(file_exists, a) ==
    (IF ~file_exists THEN <<TsvHeader>> ELSE <<>>) \o <<TsvRow(a)>>

\* open(participants_file, 'a') and the writerow calls
WriteTsv(fs, a) ==
    LET file_exists == IsFile(fs, ParticipantsFile)
        old == IF file_exists THEN fs[ParticipantsFile] ELSE <<>>
    IN  WriteFile(fs, ParticipantsFile, old \o RowsWritten(file_exists, a))

\* what identifies a run in the registry: who, which session, which source
RunId(a) == [participant |-> a.participant, session |-> a.session,
             dicom_folder |-> a.dicom_folder, age |-> a.age, sex |-> a.sex]

\* main: write_participants_tsv, then the script has finished.
WriteParticipantsTsv ==
    /\ pc = "write_tsv"
    /\ files' = WriteTsv(files, args)
    /\ completed' = Append(completed, RunId(args))
    /\ pc' = "finished"
    /\ steps' = Append(steps, "append")
    /\ UNCHANGED <<run, args, dirs, user_input, nii_info_df, ci,
                   images_to_use_dict, ki>>

Next ==
    \/ StartRun
    \/ DicomFolderMissing
    \/ OutputFolderExists
    \/ OutputFolderCreate
    \/ OverwritePrompt
    \/ RunDcm2niix
    \/ GetNiiInfoDataframe
    \/ SelectImage
    \/ CopyFilesToBidsFolder
    \/ Cleanup
    \/ WriteParticipantsTsv

Spec == Init /\ [][Next]_vars

----------------------------------------------------------------------------
(* Vocabulary of the properties, stated without the operators of the model *)

\* the integers a line typed at the row prompt denotes: one, or none
RowInputMeaning(typed) ==
    CASE typed = <<"-","1">> -> {0 - 1}
      [] typed = <<"0">> -> {0}
      [] typed = <<"1">> -> {1}
      [] typed = <<" ","1"," ">> -> {1}
      [] typed = <<"+","1">> -> {1}
      [] typed = <<"1","_","0">> -> {10}
      [] typed = <<"2">> -> {2}
      [] typed = <<"3">> -> {3}
      [] typed = <<"4">> -> {4}
      [] OTHER -> {}

\* the recorded selection of a contrast
HasSelection(d, contrast) == \E i \in DOMAIN d : d[i][1] = contrast

SelectionOf(d, contrast) == d[CHOOSE i \in DOMAIN d : d[i][1] = contrast][2]

\* a path or name without its last n characters
ChopRight(s, n) == SubSeq(s, 1, Len(s) - n)

\* the sidecar of an image: the same name with the 7 characters of ".nii.gz"
\* exchanged for another extension
Sidecar(image, ext) == ChopRight(image, 7) \o ext

\* <bids>/<participant>/<session>, its scratch folder and a file in it
SessionFolder(a) == BidsFolder \o <<"/">> \o a.participant \o <<"/">> \o a.session

ScratchFolder(a) == SessionFolder(a) \o <<"/","t","e","m","p","_","d","c","m","2","n","i","i","x">>

ScratchPath(a, name) == ScratchFolder(a) \o <<"/">> \o name

\* the name part of a scratch path
ScratchName(a, path) == SubSeq(path, Len(ScratchFolder(a)) + 2, Len(path))

\* <participant>_<session>_<contrast><ext> under the given subfolder
BidsPath(a, sub, contrast, ext) ==
    SessionFolder(a) \o <<"/">> \o sub \o <<"/">> \o a.participant \o <<"_">> \o a.session
        \o <<"_">> \o contrast \o ext

\* the current run has copied everything and not yet been followed by another
CopiesDone == pc \in {"cleanup", "write_tsv", "finished"}

----------------------------------------------------------------------------
(* C1 *)

\* C1: select_image returns only for an input that denotes an integer r with
\* 0 <= r < N, N the number of rows, and then records for the contrast the
\* scratch path of the file in row r; an empty, non-integer or out-of-range
\* input records nothing and leaves main at the prompt for the same contrast.
C1_SelectImageRow ==
    [][pc = "select" =>
        LET valid == RowInputMeaning(user_input') \cap 0..(Len(nii_info_df) - 1)
            contrast == args.contrasts[ci]
        IN  /\ (ci' # ci \/ pc' # "select" \/ images_to_use_dict' # images_to_use_dict) =>
                /\ valid # {}
                /\ ci' = ci + 1
                /\ HasSelection(images_to_use_dict', contrast)
                /\ \A r \in valid :
                      SelectionOf(images_to_use_dict', contrast)
                        = ScratchPath(args, nii_info_df[r + 1])
            /\ valid = {} =>
                /\ images_to_use_dict' = images_to_use_dict
                /\ ci' = ci
                /\ pc' = "select"]_vars

\* a row typed with surrounding blanks was accepted for the second contrast
C1_Witness ==
    /\ pc = "copy"
    /\ user_input = <<" ","1"," ">>
    /\ Len(images_to_use_dict) = 2
    /\ images_to_use_dict[2][2] = ScratchPath(args, nii_info_df[2])

----------------------------------------------------------------------------
(* C2 *)

\* C2: a selection recorded for the contrast 'dwi' has both the .bval and the
\* .bvec file of the selected image in the scratch folder.
C2_DwiSelectionHasGradients ==
    pc \in {"select", "copy"} =>
        \A i \in DOMAIN images_to_use_dict :
            images_to_use_dict[i][1] = <<"d","w","i">> =>
                /\ Sidecar(images_to_use_dict[i][2], <<".","b","v","a","l">>) \in DOMAIN files
                /\ Sidecar(images_to_use_dict[i][2], <<".","b","v","e","c">>) \in DOMAIN files

----------------------------------------------------------------------------
(* C3 *)

\* what the session folder must hold for a contrast whose selected image is
\* the scratch file `name` of run r
HoldsCopy(a, r, sub, contrast, name, ext) ==
    /\ BidsPath(a, sub, contrast, ext) \in DOMAIN files
    /\ files[BidsPath(a, sub, contrast, ext)] = <<r, Sidecar(name, ext)>>

\* C3: after the copies of a run, every requested contrast c has
\* <participant>_<session>_<c>.nii.gz and .json in the session folder, copied
\* from the series selected for c: under dwi/ with .bval and .bvec when c is
\* 'dwi', under anat/ otherwise.
C3_CopiedLayout ==
    CopiesDone =>
        \A i \in DOMAIN args.contrasts :
            LET c == args.contrasts[i]
                name == ScratchName(args, SelectionOf(images_to_use_dict, c))
            IN  /\ HasSelection(images_to_use_dict, c)
                /\ IF c = <<"d","w","i">>
                   THEN \A ext \in {<<".","n","i","i",".","g","z">>, <<".","j","s","o","n">>, <<".","b","v","a","l">>, <<".","b","v","e","c">>} :
                            HoldsCopy(args, run, <<"d","w","i">>, c, name, ext)
                   ELSE \A ext \in {<<".","n","i","i",".","g","z">>, <<".","j","s","o","n">>} :
                            HoldsCopy(args, run, <<"a","n","a","t">>, c, name, ext)

\* a run with T2w and dwi has finished
C3_Witness ==
    /\ pc = "finished"
    /\ args.contrasts = <<<<"T","2","w">>, <<"d","w","i">>>>
    /\ BidsPath(args, <<"d","w","i">>, <<"d","w","i">>, <<".","b","v","e","c">>) \in DOMAIN files
    /\ BidsPath(args, <<"a","n","a","t">>, <<"T","2","w">>, <<".","j","s","o","n">>) \in DOMAIN files

----------------------------------------------------------------------------
(* C4 *)

\* the rows of <bids>/participants.tsv, none when the file does not exist
Registry(fs) ==
    IF (BidsFolder \o <<"/","p","a","r","t","i","c","i","p","a","n","t","s",".","t","s","v">>) \in DOMAIN fs
    THEN fs[BidsFolder \o <<"/","p","a","r","t","i","c","i","p","a","n","t","s",".","t","s","v">>] ELSE <<>>

HeaderRow == <<<<"p","a","r","t","i","c","i","p","a","n","t","_","i","d">>, <<"s","e","s","_","i","d">>, <<"s","o","u","r","c","e","_","i","d">>, <<"a","g","e">>, <<"s","e","x">>>>

\* the data row of a completed run; every DICOM folder lies in /src/
DataRow(c) ==
    <<c.participant, c.session, SubSeq(c.dicom_folder, 6, Len(c.dicom_folder)),
      c.age, c.sex>>

RegistryShape ==
    /\ completed = <<>> => (BidsFolder \o <<"/","p","a","r","t","i","c","i","p","a","n","t","s",".","t","s","v">>) \notin DOMAIN files
    /\ completed # <<>> =>
        /\ Len(Registry(files)) = 1 + Len(completed)
        /\ Registry(files)[1] = HeaderRow
        /\ \A i \in DOMAIN completed :
              /\ Registry(files)[i + 1] = DataRow(completed[i])
              /\ Registry(files)[i + 1] # HeaderRow

RegistryStep ==
    /\ Len(Registry(files')) >= Len(Registry(files))
    /\ \A i \in DOMAIN Registry(files) : Registry(files')[i] = Registry(files)[i]
    /\ (pc' # pc /\ pc' \in {"skipped", "exit1", "crashed"}) =>
          /\ Registry(files') = Registry(files)
          /\ completed' = completed
    /\ (pc' # pc /\ pc' = "finished") => Len(completed') = Len(completed) + 1
    /\ pc' # "finished" => completed' = completed

\* C4: participants.tsv is one header row followed by one data row per
\* completed run, in run order; no step changes or removes an existing row,
\* and a run that ends early appends nothing.
C4_RegistryRows == []RegistryShape /\ [][RegistryStep]_vars

\* two runs have completed from different DICOM folders
C4_Witness ==
    /\ Len(completed) = 2
    /\ completed[1].dicom_folder # completed[2].dicom_folder
    /\ Len(Registry(files)) = 3

----------------------------------------------------------------------------
(* C5 *)

\* the files a run leaves in the session folder for its contrasts
ExpectedCopies(a) ==
    UNION { IF a.contrasts[i] = <<"d","w","i">>
            THEN {BidsPath(a, <<"d","w","i">>, a.contrasts[i], ext) :
                    ext \in {<<".","n","i","i",".","g","z">>, <<".","j","s","o","n">>, <<".","b","v","a","l">>, <<".","b","v","e","c">>}}
            ELSE {BidsPath(a, <<"a","n","a","t">>, a.contrasts[i], ext) :
                    ext \in {<<".","n","i","i",".","g","z">>, <<".","j","s","o","n">>}}
          : i \in DOMAIN a.contrasts }

InSession(a, p) ==
    Len(p) > Len(SessionFolder(a)) + 1
        /\ SubSeq(p, 1, Len(SessionFolder(a)) + 1) = SessionFolder(a) \o <<"/">>

InScratch(a, p) ==
    Len(p) >= Len(ScratchFolder(a))
        /\ SubSeq(p, 1, Len(ScratchFolder(a))) = ScratchFolder(a)

\* C5: once a run is past its clean-up, without -debug the scratch folder is
\* gone and the session folder holds the copied files only; with -debug the
\* scratch folder still holds every converted image and its JSON sidecar.
C5_ScratchCleanup ==
    pc \in {"write_tsv", "finished"} =>
        IF ~args.debug
        THEN /\ \A d \in dirs : ~InScratch(args, d)
             /\ \A p \in DOMAIN files : ~InScratch(args, p)
             /\ {p \in DOMAIN files : InSession(args, p)} = ExpectedCopies(args)
        ELSE /\ ScratchFolder(args) \in dirs
             /\ \A k \in DOMAIN nii_info_df :
                  \A f \in {nii_info_df[k], Sidecar(nii_info_df[k], <<".","j","s","o","n">>)} :
                      /\ ScratchPath(args, f) \in DOMAIN files
                      /\ files[ScratchPath(args, f)] = <<run, f>>

\* a run without -debug has finished and left its copies
C5_Witness ==
    /\ pc = "finished"
    /\ ~args.debug
    /\ ExpectedCopies(args) \subseteq DOMAIN files
    /\ ScratchFolder(args) \notin dirs

----------------------------------------------------------------------------
(* C6 *)

\* a contrast is a diffusion contrast when its untagged type is dwi
IsDiffusion(contrast) ==
    Len(contrast) >= 3 /\ SubSeq(contrast, Len(contrast) - 2, Len(contrast)) = <<"d","w","i">>

\* C6: a diffusion contrast with an acq- tag is selected only with both
\* gradient files present and is stored under dwi/ with its .bval and .bvec.
C6_TaggedDwiHandledAsDwi ==
    /\ pc \in {"select", "copy"} =>
          \A i \in DOMAIN images_to_use_dict :
              IsDiffusion(images_to_use_dict[i][1]) =>
                  /\ Sidecar(images_to_use_dict[i][2], <<".","b","v","a","l">>) \in DOMAIN files
                  /\ Sidecar(images_to_use_dict[i][2], <<".","b","v","e","c">>) \in DOMAIN files
    /\ CopiesDone =>
          \A i \in DOMAIN args.contrasts :
              IsDiffusion(args.contrasts[i]) =>
                  \A ext \in {<<".","n","i","i",".","g","z">>, <<".","j","s","o","n">>, <<".","b","v","a","l">>, <<".","b","v","e","c">>} :
                      BidsPath(args, <<"d","w","i">>, args.contrasts[i], ext) \in DOMAIN files

----------------------------------------------------------------------------
(* C7 *)

UpperOf(c) ==
    CASE c = "y" -> "Y" [] c = "e" -> "E" [] c = "s" -> "S"
      [] c = "n" -> "N" [] c = "o" -> "O" [] OTHER -> c

\* the answer spells the word, in any letter case
Spells(answer, word) ==
    /\ Len(answer) = Len(word)
    /\ \A i \in 1..Len(word) : answer[i] \in {word[i], UpperOf(word[i])}

SessionEmpty(a, fs, ds) ==
    /\ \A p \in DOMAIN fs : ~InSession(a, p)
    /\ \A d \in ds : ~InSession(a, d) /\ d # SessionFolder(a)

OverwriteStep ==
    pc = "overwrite_prompt" =>
        IF Spells(user_input', <<"y">>) \/ Spells(user_input', <<"y","e","s">>)
        THEN pc' = "convert" /\ SessionEmpty(args, files', dirs')
        ELSE IF Spells(user_input', <<"n">>) \/ Spells(user_input', <<"n","o">>)
        THEN pc' = "skipped" /\ files' = files /\ dirs' = dirs
        ELSE pc' = "overwrite_prompt" /\ files' = files /\ dirs' = dirs

SkippedStep ==
    pc = "skipped" => (pc' \in {"skipped", "check_dicom"} /\ files' = files /\ dirs' = dirs)

\* C7: at the overwrite prompt, y or yes in any letter case removes the
\* existing folder and goes on to the converter; n or no ends the run with
\* the file system unchanged and the converter not invoked; any other answer
\* changes nothing and prompts again.
C7_OverwritePrompt == [][OverwriteStep /\ SkippedStep]_vars

\* the operator answered YES in a second run and the folder is gone
C7_Witness ==
    /\ pc = "convert"
    /\ run = 2
    /\ user_input = <<"Y","E","S">>
    /\ SessionEmpty(args, files, dirs)
    /\ Registry(files) # <<>>

----------------------------------------------------------------------------
(* C8 *)

Count(seq, x) == Cardinality({i \in DOMAIN seq : seq[i] = x})

Rank(step) ==
    CASE step = "convert" -> 1 [] step = "list" -> 2 [] step = "select" -> 3
      [] step = "copy" -> 4 [] step = "append" -> 5

\* a file of the current run under anat/ or dwi/
CopiedThisRun(a, r, p) ==
    /\ \E sub \in {<<"a","n","a","t">>, <<"d","w","i">>} :
          Len(p) > Len(SessionFolder(a)) + Len(sub) + 2
            /\ SubSeq(p, 1, Len(SessionFolder(a)) + Len(sub) + 2)
                  = SessionFolder(a) \o <<"/">> \o sub \o <<"/">>
    /\ files[p][1] = r

\* C8: in one run the converter runs first, then the listing, then one
\* selection per requested contrast, then the copies, then the registry row;
\* nothing is copied before every requested contrast has a selection, and
\* the row is appended only after every copy.
C8_StepOrder ==
    /\ \A i, j \in DOMAIN steps : i < j => Rank(steps[i]) <= Rank(steps[j])
    /\ \A s \in {"convert", "list", "append"} : Count(steps, s) <= 1
    /\ Count(steps, "list") = 1 => Count(steps, "convert") = 1
    /\ Count(steps, "select") > 0 => Count(steps, "list") = 1
    /\ Count(steps, "copy") > 0 => Count(steps, "select") = Len(args.contrasts)
    /\ (\E p \in DOMAIN files : CopiedThisRun(args, run, p)) =>
          \A i \in DOMAIN args.contrasts :
              HasSelection(images_to_use_dict, args.contrasts[i])
    /\ Count(steps, "append") = 1 =>
          /\ Count(steps, "copy") = Cardinality({args.contrasts[i] : i \in DOMAIN args.contrasts})
          /\ ExpectedCopies(args) \subseteq DOMAIN files
          /\ \A p \in ExpectedCopies(args) : files[p][1] = run

\* a run with two contrasts went through all its steps
C8_Witness ==
    steps = <<"convert", "list", "select", "select", "copy", "copy", "append">>

----------------------------------------------------------------------------
(* C9 *)

\* the .nii.gz names in the scratch folder
ScratchNii(a, fs) ==
    {ScratchName(a, p) : p \in {q \in DOMAIN fs :
        /\ InScratch(a, q)
        /\ Len(q) > Len(ScratchFolder(a)) + 8
        /\ SubSeq(q, Len(q) - 6, Len(q)) = <<".","n","i","i",".","g","z">>}}

RECURSIVE Decimal(_)
Decimal(d) ==
    IF d = <<>> THEN 0
    ELSE 10 * Decimal(SubSeq(d, 1, Len(d) - 1))
           + (CHOOSE v \in 0..9 : <<"0","1","2","3","4","5","6","7","8","9">>[v + 1] = d[Len(d)])

\* the series number: the integer after the last underscore of the name
SeriesNumber(name) ==
    LET stem == ChopRight(name, 7)
        last == CHOOSE i \in 1..Len(stem) :
                    stem[i] = "_" /\ \A j \in (i + 1)..Len(stem) : stem[j] # "_"
    IN  Decimal(SubSeq(stem, last + 1, Len(stem)))

TableShape ==
    pc = "select" =>
        /\ {nii_info_df[k] : k \in DOMAIN nii_info_df} = ScratchNii(args, files)
        /\ Len(nii_info_df) = Cardinality(ScratchNii(args, files))
        /\ \A i, j \in DOMAIN nii_info_df :
              i < j => SeriesNumber(nii_info_df[i]) <= SeriesNumber(nii_info_df[j])

RowPick ==
    (pc = "select" /\ ci' = ci + 1) =>
        \E k \in DOMAIN nii_info_df :
            /\ RowInputMeaning(user_input') = {k - 1}
            /\ ScratchName(args, SelectionOf(images_to_use_dict', args.contrasts[ci]))
                  = nii_info_df[k]
            /\ Cardinality({j \in DOMAIN nii_info_df :
                  SeriesNumber(nii_info_df[j]) < SeriesNumber(nii_info_df[k])}) <= k - 1

\* C9: the table holds exactly the .nii.gz files of the scratch folder, each
\* once, in non-decreasing order of series number, and the row index typed
\* selects the file at that position of the order.
C9_TableSorted == []TableShape /\ [][RowPick]_vars

\* a table of four files, two of them with the same series number
C9_Witness ==
    /\ pc = "select"
    /\ Len(nii_info_df) = 4
    /\ SeriesNumber(nii_info_df[2]) = SeriesNumber(nii_info_df[3])
    /\ images_to_use_dict # <<>>

----------------------------------------------------------------------------
(* C10 *)

\* C10: what validate_dwi_image checked is what the copy reads, so the copy
\* of a validated dwi selection never stops at a missing gradient file.
C10_ValidatedDwiCopies ==
    ~( /\ pc = "crashed"
       /\ steps # <<>> /\ steps[Len(steps)] = "copy"
       /\ images_to_use_dict[ki][1] = <<"d","w","i">>
       /\ \E ext \in {<<".","b","v","a","l">>, <<".","b","v","e","c">>} :
             Sidecar(images_to_use_dict[ki][2], ext) \notin DOMAIN files )

====
